---------------------------- MODULE Spec2Model ----------------------------
(***************************************************************************)
(* Model of src/Map_service.cpp: a subway network (Subway::lines), the     *)
(* per-segment computation Subway::calculateSegment, the token parser      *)
(* parseToken and the route loop of main.                                  *)
(*                                                                         *)
(* Representation.                                                         *)
(*  - A std::string is a sequence of characters.  The two characters the   *)
(*    program ever inspects, '(' and ')', are the one-character strings    *)
(*    "(" and ")".  Every other element of a sequence is an atom standing  *)
(*    for a run of bytes that contains neither: a station name, a line     *)
(*    identifier such as "arex", a literal of the output format.  The      *)
(*    program only searches for the two parentheses, slices, concatenates  *)
(*    and compares strings, so atoms behave as characters.  The Korean     *)
(*    station names and literals of the source are written romanised and   *)
(*    glossed in English (Map_service.cpp lines 103-117, 128, 136, 151,    *)
(*    156).                                                                *)
(*  - A double holding a track distance is an integer number of tenths of  *)
(*    a kilometre (the data has one decimal digit); an average speed is an *)
(*    integer number of km/h; a latitude or longitude is an integer number *)
(*    of thousandths of a degree (the data has three decimal digits).      *)
(*  - size_t arithmetic keeps its wrap-around: see SizeSubOne.             *)
(***************************************************************************)
EXTENDS Integers, Sequences, FiniteSets, TLC

VARIABLES
    lines,      \* Subway::lines: line identifier -> Line
    argv,       \* main: argv[1..argc-1], the route tokens
    pc,         \* main: position in the program
    i,          \* main: loop counter of the route loop
    result,     \* main: std::string result
    out,        \* what main wrote to std::cout
    exitCode,   \* main's return value (-1 while running)
    warned,     \* loadData wrote its warning to std::cerr
    calls,      \* history: the calculateSegment invocations made so far
    missed,     \* history: line identifiers already reported as not found
    token,      \* parseToken: the argument
    parsed      \* parseToken: the out-parameters, once the call returned

vars == <<lines, argv, pc, i, result, out, exitCode, warned, calls, missed,
          token, parsed>>

-----------------------------------------------------------------------------
(* Bounds of the model. *)

\* longest itinerary (number of route tokens) main is run on
MaxTokens == 3
\* longest token parseToken is applied to
MaxTokLen == 4

-----------------------------------------------------------------------------
(* std::string and size_t *)

NPOS == -1

Abs(x) == IF x < 0 THEN -x ELSE x

Min(a, b) == IF a < b THEN a ELSE b

\* std::string::find(char): index (from 0) of the first occurrence, or npos
Find(s, ch) ==
    IF \E k \in 1..Len(s) : s[k] = ch
    THEN (CHOOSE k \in 1..Len(s) : s[k] = ch /\ \A j \in 1..(k-1) : s[j] /= ch) - 1
    ELSE NPOS

\* closeParen - openParen - 1 on size_t, for two indices a, b into one string.
\* A negative value wraps to 2^64 - (b - a + 1); the model keeps the wrapped
\* value symbolically as [wrapped |-> TRUE, v |-> b - a + 1].
SizeSubOne(a, b) ==
    IF a > b THEN [wrapped |-> FALSE, v |-> a - b - 1]
             ELSE [wrapped |-> TRUE,  v |-> b - a + 1]

\* the number of characters substr takes: min(count, size - pos).  A wrapped
\* count is at least 2^64 - size - 1, which exceeds every size - pos.
Taken(count, avail) ==
    IF count.wrapped THEN avail ELSE Min(count.v, avail)

\* std::string::substr(pos, count): throws std::out_of_range iff pos > size()
SubstrStrict(s, pos, count) ==
    IF pos >= Len(s)
    THEN [threw |-> TRUE, str |-> <<>>]
    ELSE [threw |-> FALSE, str |-> SubSeq(s, pos + 1, pos + Taken(count, Len(s) - pos))]

Substr(s, pos, count) ==
    IF pos > Len(s)
    THEN [threw |-> TRUE, str |-> <<>>]
    ELSE [threw |-> FALSE, str |-> SubSeq(s, pos + 1, pos + Taken(count, Len(s) - pos))]

-----------------------------------------------------------------------------
(* parseToken *)

\* void parseToken(token, name, line): the out-parameters as a record;
\* threw = an exception left the function
ParseToken(t) ==
    LET openParen  == Find(t, "(")
        closeParen == Find(t, ")")
    IN  IF openParen /= NPOS /\ closeParen /= NPOS
        THEN LET n == Substr(t, 0, [wrapped |-> FALSE, v |-> openParen])
                 l == Substr(t, openParen + 1, SizeSubOne(closeParen, openParen))
             IN  [name |-> n.str, line |-> l.str, threw |-> n.threw \/ l.threw]
        ELSE [name |-> t, line |-> <<>>, threw |-> FALSE]

-----------------------------------------------------------------------------
(* Station, Line and the data loadData builds *)

\* Station(n, d, la = 0.0, lo = 0.0)
Station(n, d, la, lo) == [name |-> n, distFromStart |-> d, lat |-> la, lon |-> lo]

\* Line::Line(): the default average speed
DefaultSpeed == 40

\* Line::Line()
DefaultLine == [lineName |-> <<>>, stations |-> <<>>, avgSpeed |-> DefaultSpeed]

\* Line::Line(name, speed)
NewLine(name, speed) == [lineName |-> name, stations |-> <<>>, avgSpeed |-> speed]

\* Line::addStation
AddStation(line, n, d, la, lo) ==
    [line EXCEPT !.stations = Append(@, Station(n, d, la, lo))]

\* Line::findStation: the first station of that name, or nullptr (NoStation)
NoStation == [name |-> <<>>, distFromStart |-> -1, lat |-> 0, lon |-> 0, null |-> TRUE]

FindStation(line, n) ==
    IF \E k \in 1..Len(line.stations) : line.stations[k].name = n
    THEN line.stations[CHOOSE k \in 1..Len(line.stations) :
                          /\ line.stations[k].name = n
                          /\ \A j \in 1..(k-1) : line.stations[j].name /= n]
    ELSE NoStation

IsNull(s) == "null" \in DOMAIN s

\* line identifiers and station names of the hardcoded data
ArexId == <<"arex">>
NineId == <<"9">>

Arex ==
    LET l0 == NewLine(<<"arex">>, 60)
        l1 == AddStation(l0, <<"Gyeyang">>, 0, 37571, 126736)
        l2 == AddStation(l1, <<"GimpoAirport">>, 66, 37562, 126801)
    IN  AddStation(l2, <<"Magongnaru">>, 95, 37567, 126829)

Line9 ==
    LET l0 == NewLine(<<"9">>, 47)
        l1 == AddStation(l0, <<"Gaehwa">>, 0, 0, 0)
        l2 == AddStation(l1, <<"GimpoAirport">>, 36, 37562, 126801)
        l3 == AddStation(l2, <<"Gayang">>, 105, 0, 0)
        l4 == AddStation(l3, <<"Yeomchang">>, 130, 0, 0)
        l5 == AddStation(l4, <<"Dangsan">>, 165, 0, 0)
        l6 == AddStation(l5, <<"Yeouido">>, 190, 0, 0)
    IN  AddStation(l6, <<"Noryangjin">>, 220, 37514, 126942)

\* std::map::operator[]: inserts a default-constructed Line for a new key
MapIndex(ls, key) ==
    IF key \in DOMAIN ls THEN ls
    ELSE [k \in DOMAIN ls \cup {key} |-> IF k = key THEN DefaultLine ELSE ls[k]]

\* lines[key] = value
MapPut(ls, key, value) ==
    [k \in DOMAIN ls \cup {key} |-> IF k = key THEN value ELSE ls[k]]

\* the map a newly constructed Subway holds
EmptyLines == [k \in {} |-> DefaultLine]

\* what loadData leaves in lines
LoadedLines(ls) == MapPut(MapPut(ls, ArexId, Arex), NineId, Line9)

-----------------------------------------------------------------------------
(* Arithmetic on double, in fixed point.                                   *)
(* Angles are in micro-radians, cosines in millionths, the haversine term  *)
(* a in 10^-12, the distance returned in millimetres.  The evaluation is   *)
(* the source's formula term by term, with sin, cos and atan2 by their     *)
(* series.  It is within 0.5% of the double result, and prints the same    *)
(* one-decimal value, for every two stations of one line in the data of    *)
(* loadData; it covers angle differences up to about 3 degrees.            *)

\* earth radius in km
R == 6371

\* PI / 180 in units of 10^-6: toRad of one degree, in micro-radians
RadPerDeg == 17453

\* toRad(degree): thousandths of a degree -> micro-radians
ToRad(mdeg) ==
    IF mdeg >= 0 THEN (mdeg * RadPerDeg) \div 1000
                 ELSE -(((-mdeg) * RadPerDeg) \div 1000)

\* a * b / 10^6 without leaving 32 bits, for 0 <= a <= 10^6, 0 <= b <= 10^9
MulMicro(a, b) ==
    LET ah == a \div 1000   al == a % 1000
        bh == b \div 1000   bl == b % 1000
    IN  ah * bh + (ah * bl + al * bh) \div 1000 + (al * bl) \div 1000000

\* floor of the square root
RECURSIVE SqrtIn(_, _, _)
SqrtIn(n, lo, hi) ==
    IF lo >= hi THEN lo
    ELSE LET mid == (lo + hi + 1) \div 2
         IN  IF mid * mid <= n THEN SqrtIn(n, mid, hi) ELSE SqrtIn(n, lo, mid - 1)

Sqrt(n) == SqrtIn(n, 0, 46340)

\* sin(x / 2) * sin(x / 2) in 10^-12, x in micro-radians
SinHalfSq(x) ==
    LET h == Abs(x) \div 2
        s == h - (((h * h) \div 1000000) * h) \div 6000000
    IN  s * s

\* cos(x) in millionths, x in micro-radians, |x| <= PI / 2
Cos(x) ==
    LET c  == Abs(x) \div 100
        x2 == (c * c) \div 100
        k2 == x2 \div 1000
        x4 == k2 * k2
        x6 == (x4 \div 1000) * k2
        x8 == (x6 \div 1000) * k2
    IN  1000000 - x2 \div 2 + x4 \div 24 - x6 \div 720 + x8 \div 40320

\* 2 * atan2(sqrt(a), sqrt(1 - a)) in micro-radians, a in 10^-12
TwoAtan2(a) ==
    LET s == Sqrt(a)
    IN  2 * (s + (((s * s) \div 1000000) * s) \div 6000000)

\* the haversine formula of calcStraightDist, in millimetres
Haversine(lat1, lon1, lat2, lon2) ==
    LET dLat == ToRad(lat2 - lat1)
        dLon == ToRad(lon2 - lon1)
        a == SinHalfSq(dLat)
             + MulMicro(((Cos(ToRad(lat1)) \div 100) * (Cos(ToRad(lat2)) \div 100)) \div 100,
                        SinHalfSq(dLon))
        c == TwoAtan2(a)
    IN  R * c

\* calcStraightDist with && for || in its test: a pair with one latitude 0
\* reaches the formula, which gives the distance to a point on the equator,
\* thousands of km (here 0.1 radian of arc, the true angle being outside
\* the range of the fixed-point evaluation)
CalcStraightDistBothZero(lat1, lon1, lat2, lon2) ==
    IF lat1 = 0 /\ lat2 = 0 THEN 0
    ELSE IF lat1 = 0 \/ lat2 = 0 THEN R * 100000
    ELSE Haversine(lat1, lon1, lat2, lon2)

\* Subway::calcStraightDist, in millimetres
CalcStraightDist(lat1, lon1, lat2, lon2) ==
    IF lat1 = 0 \/ lat2 = 0 THEN 0
    ELSE Haversine(lat1, lon1, lat2, lon2)

\* (int)std::round(x) for x = num / den, den > 0: halves round away from zero
Round(num, den) ==
    IF num >= 0 THEN (2 * num + den) \div (2 * den)
                ELSE -((2 * (-num) + den) \div (2 * den))

\* operator<< of an int: a sign and its decimal digits
Digit(d) == <<"0", "1", "2", "3", "4", "5", "6", "7", "8", "9">>[d + 1]

RECURSIVE IntStr(_)
IntStr(n) ==
    IF n < 0 THEN <<"-">> \o IntStr(-n)
    ELSE IF n < 10 THEN <<Digit(n)>>
    ELSE IntStr(n \div 10) \o <<Digit(n % 10)>>

\* std::fixed << std::setprecision(1) of a value given in tenths
Fixed1(tenths) ==
    IF tenths < 0 THEN <<"-">> \o IntStr((-tenths) \div 10) \o <<".">> \o <<Digit((-tenths) % 10)>>
    ELSE IntStr(tenths \div 10) \o <<".">> \o <<Digit(tenths % 10)>>

-----------------------------------------------------------------------------
(* Subway::calculateSegment *)

\* lines.find(targetLine) == lines.end()
LineMissing(ls, targetLine) == targetLine \notin DOMAIN ls

\* "Error: <no such line>(" + targetLine + ")"
LineNotFoundTextBare(targetLine) == <<"Error: no such line", "(", ")">>

LineNotFoundText(targetLine) ==
    <<"Error: no such line", "(">> \o targetLine \o <<")">>

\* "Error: <station not found> (" + startName + " or " + endName + ")"
StationNotFoundTextStartOnly(startName, endName) ==
    <<"Error: station not found ", "(">> \o startName \o <<")">>

StationNotFoundText(startName, endName) ==
    <<"Error: station not found ", "(">> \o startName \o <<" or ">> \o endName \o <<")">>

\* if (straightDist > 0): the straight-line clause is written
ShowStraightAlways(straightDist) == straightDist >= 0

ShowStraight(straightDist) == straightDist > 0

\* the stringstream of a successful call: distance in tenths of a km,
\* straightDist in millimetres ("bun" = minutes, "jikseon" = straight line)
SegmentText(distance, minutes, startName, endName, straightDist) ==
    Fixed1(distance) \o <<"km">>
    \o <<"(">> \o IntStr(minutes) \o <<"bun, ">>
    \o startName \o <<"-">> \o endName
    \o (IF ShowStraight(straightDist)
        THEN <<", jikseon ">> \o Fixed1(Round(straightDist, 100000)) \o <<"km">>
        ELSE <<>>)
    \o <<")">>

\* std::abs(s1->distFromStart - s2->distFromStart)
TrackDistanceSigned(s1, s2) == s1.distFromStart - s2.distFromStart

TrackDistance(s1, s2) == Abs(s1.distFromStart - s2.distFromStart)

\* the lookup of the line: lines.find, and lines[targetLine] only when found
LookupIndexFirst(ls, targetLine) ==
    LET after == MapIndex(ls, targetLine)
    IN  [missing |-> LineMissing(after, targetLine), lines |-> after]

Lookup(ls, targetLine) ==
    IF LineMissing(ls, targetLine)
    THEN [missing |-> TRUE, lines |-> ls]
    ELSE [missing |-> FALSE, lines |-> MapIndex(ls, targetLine)]

\* the call as a whole: ret is the returned string, lines the map after the
\* call; kind, distance (tenths of a km), minutes and straightDist
\* (millimetres) are the locals the string was rendered from
CalculateSegment(ls, startName, endName, lineTag) ==
    LET targetLine == lineTag
        found == Lookup(ls, targetLine)
    IN  IF found.missing
        THEN [ret |-> LineNotFoundText(targetLine), lines |-> found.lines,
              kind |-> "LineNotFound", distance |-> 0, minutes |-> 0, straightDist |-> 0]
        ELSE LET line == found.lines[targetLine]
                 s1 == FindStation(line, startName)
                 s2 == FindStation(line, endName)
             IN  IF IsNull(s1) \/ IsNull(s2)
                 THEN [ret |-> StationNotFoundText(startName, endName),
                       lines |-> found.lines, kind |-> "StationNotFound",
                       distance |-> 0, minutes |-> 0, straightDist |-> 0]
                 ELSE LET distance == TrackDistance(s1, s2)
                          straightDist == CalcStraightDist(s1.lat, s1.lon, s2.lat, s2.lon)
                          minutes == Round(distance * 60, line.avgSpeed * 10)
                      IN  [ret |-> SegmentText(distance, minutes, startName, endName,
                                               straightDist),
                           lines |-> found.lines, kind |-> "ok",
                           distance |-> distance, minutes |-> minutes,
                           straightDist |-> straightDist]

-----------------------------------------------------------------------------
(* main: the program run on a route *)

\* the route tokens the program is run on
Tok(name, tag) == <<name, "(", tag, ")">>

RouteTokens ==
    { Tok("Gyeyang", "arex"), Tok("GimpoAirport", "9"), Tok("GimpoAirport", "arex"),
      Tok("Noryangjin", "9"), <<"Noryangjin">>, Tok("Gaehwa", "9"),
      Tok("Sinchon", "9"), Tok("Gyeyang", "99"), <<"Gyeyang">>,
      <<"GimpoAirport", ")", "(", "9">> }

Itineraries == UNION { [1..n -> RouteTokens] : n \in 0..MaxTokens }

\* the two lines of the usage message
UsageText == <<"Usage", "Ex">>

NotParsed == [name |-> <<>>, line |-> <<>>, threw |-> FALSE, returned |-> FALSE]

Init ==
    /\ argv \in Itineraries
    /\ lines = EmptyLines
    /\ pc = "start"
    /\ i = 0
    /\ result = <<>>
    /\ out = <<>>
    /\ exitCode = -1
    /\ warned = FALSE
    /\ calls = <<>>
    /\ missed = {}
    /\ token = <<>>
    /\ parsed = NotParsed

\* argc counts the program name
argc == Len(argv) + 1

\* if (argc < 3): usage message, return 1
Usage ==
    /\ pc = "start"
    /\ argc < 3
    /\ out' = UsageText
    /\ exitCode' = 1
    /\ pc' = "done"
    /\ UNCHANGED <<lines, argv, i, result, warned, calls, missed, token, parsed>>

\* Subway::loadData: the file opens or not; the hardcoded lines are stored
LoadDataInto(ls, fileOpen) == [lines |-> LoadedLines(ls), warned |-> ~fileOpen]

\* make_unique<Subway>(), loadData, result = "", i = 1
LoadData ==
    /\ pc = "start"
    /\ ~(argc < 3)
    /\ \E fileOpen \in BOOLEAN :
          LET l == LoadDataInto(lines, fileOpen)
          IN  lines' = l.lines /\ warned' = l.warned
    /\ result' = <<>>
    /\ i' = 1
    /\ pc' = "loop"
    /\ UNCHANGED <<argv, out, exitCode, calls, missed, token, parsed>>

\* the loop condition
LoopCond(k) == k < argc - 1

\* the line tag handed to calculateSegment: that of the current token
SegmentLineOfNext(cur, nxt) == nxt.line

SegmentLine(cur, nxt) == cur.line

\* if (i > 1) result += ", "
Delimited(k, r) == IF k > 1 THEN r \o <<", ">> ELSE r

\* one entry of the history of calls
CallRecord(startName, endName, lineTag, seg, before) ==
    [start |-> startName, end |-> endName, line |-> lineTag,
     ret |-> seg.ret, kind |-> seg.kind, distance |-> seg.distance,
     minutes |-> seg.minutes, straightDist |-> seg.straightDist,
     repeated |-> lineTag \in before]

\* whether the loop is left after a segment: the body has no break and no
\* return, so an error string does not end the loop
BreaksOnError(seg) == seg.kind /= "ok"

BreaksLoop(seg) == FALSE

\* one iteration of the route loop
RouteStep ==
    /\ pc = "loop"
    /\ LoopCond(i)
    /\ LET cur == ParseToken(argv[i])
           nxt == ParseToken(argv[i + 1])
       IN  IF cur.threw \/ nxt.threw
           THEN /\ pc' = "terminated"
                /\ UNCHANGED <<lines, i, result, calls, missed>>
           ELSE LET tag == SegmentLine(cur, nxt)
                    seg == CalculateSegment(lines, cur.name, nxt.name, tag)
                IN  /\ result' = Delimited(i, result) \o seg.ret
                    /\ lines' = seg.lines
                    /\ calls' = Append(calls, CallRecord(cur.name, nxt.name, tag, seg, missed))
                    /\ missed' = IF seg.kind = "LineNotFound" THEN missed \cup {tag}
                                                              ELSE missed
                    /\ i' = IF BreaksLoop(seg) THEN argc - 1 ELSE i + 1
                    /\ pc' = "loop"
    /\ UNCHANGED <<argv, out, exitCode, warned, token, parsed>>

\* std::cout << result; return 0
PrintResult ==
    /\ pc = "loop"
    /\ ~LoopCond(i)
    /\ out' = <<result>>
    /\ exitCode' = 0
    /\ pc' = "done"
    /\ UNCHANGED <<lines, argv, i, result, warned, calls, missed, token, parsed>>

Next == Usage \/ LoadData \/ RouteStep \/ PrintResult

Spec == Init /\ [][Next]_vars

-----------------------------------------------------------------------------
(* calculateSegment called directly, any number of times, on a loaded Subway *)

\* station names the calls are made with: every station of the data and
\* one name that is on no line
StationNames ==
    { <<"Gyeyang">>, <<"GimpoAirport">>, <<"Magongnaru">>, <<"Gaehwa">>, <<"Gayang">>,
      <<"Yeomchang">>, <<"Dangsan">>, <<"Yeouido">>, <<"Noryangjin">>, <<"Sinchon">> }

\* line tags the calls are made with: the two lines of the data, an unknown
\* identifier and the empty one
LineTags == { <<"arex">>, <<"9">>, <<"99">>, <<>> }

InitSeg ==
    /\ argv = <<>>
    /\ lines = EmptyLines
    /\ pc = "new"
    /\ i = 0
    /\ result = <<>>
    /\ out = <<>>
    /\ exitCode = -1
    /\ warned = FALSE
    /\ calls = <<>>
    /\ missed = {}
    /\ token = <<>>
    /\ parsed = NotParsed

\* subwaySystem->loadData(filename)
SegLoad ==
    /\ pc = "new"
    /\ \E fileOpen \in BOOLEAN :
          LET l == LoadDataInto(lines, fileOpen)
          IN  lines' = l.lines /\ warned' = l.warned
    /\ pc' = "loaded"
    /\ UNCHANGED <<argv, i, result, out, exitCode, calls, missed, token, parsed>>

\* subwaySystem->calculateSegment(startName, endName, lineTag); calls keeps
\* the latest call only
SegCall ==
    /\ pc = "loaded"
    /\ \E startName \in StationNames, endName \in StationNames, lineTag \in LineTags :
          LET seg == CalculateSegment(lines, startName, endName, lineTag)
          IN  /\ lines' = seg.lines
              /\ calls' = <<CallRecord(startName, endName, lineTag, seg, missed)>>
              /\ missed' = IF seg.kind = "LineNotFound" THEN missed \cup {lineTag}
                                                        ELSE missed
    /\ UNCHANGED <<argv, pc, i, result, out, exitCode, warned, token, parsed>>

NextSeg == SegLoad \/ SegCall

SpecSeg == InitSeg /\ [][NextSeg]_vars

-----------------------------------------------------------------------------
(* parseToken applied to any token *)

\* the characters of a token: the two parentheses and two others
Alphabet == { "(", ")", "a", "b" }

Tokens == UNION { [1..n -> Alphabet] : n \in 0..MaxTokLen }

InitParse ==
    /\ token \in Tokens
    /\ parsed = NotParsed
    /\ argv = <<>>
    /\ lines = EmptyLines
    /\ pc = "parse"
    /\ i = 0
    /\ result = <<>>
    /\ out = <<>>
    /\ exitCode = -1
    /\ warned = FALSE
    /\ calls = <<>>
    /\ missed = {}

\* parseToken(token, name, line)
Parse ==
    /\ pc = "parse"
    /\ LET p == ParseToken(token)
       IN  parsed' = [name |-> p.name, line |-> p.line, threw |-> p.threw,
                      returned |-> ~p.threw]
    /\ pc' = "parsed"
    /\ UNCHANGED <<lines, argv, i, result, out, exitCode, warned, calls, missed, token>>

NextParse == Parse

SpecParse == InitParse /\ [][NextParse]_vars

-----------------------------------------------------------------------------
(* Properties *)

\* the strings of rets joined by ", "
RECURSIVE Join(_)
Join(rets) ==
    IF Len(rets) = 0 THEN <<>>
    ELSE IF Len(rets) = 1 THEN rets[1]
    ELSE rets[1] \o <<", ">> \o Join(Tail(rets))

\* name occurs in text as a substring
Mentions(text, name) ==
    \E k \in 0..(Len(text) - Len(name)) : SubSeq(text, k + 1, k + Len(name)) = name

\* the name and the line tag parseToken gives for the k-th route token
NameOf(k) == ParseToken(argv[k]).name
TagOf(k) == ParseToken(argv[k]).line

\* the k-th segment computed on its own, on the network as loadData built it
Fresh(k) == CalculateSegment(LoadedLines(EmptyLines), NameOf(k), NameOf(k + 1), TagOf(k))

\* the stations named n on line l of the current network
OnLine(l, n) == l \in DOMAIN lines /\ \E k \in 1..Len(lines[l].stations) : lines[l].stations[k].name = n
StationOf(l, n) == CHOOSE st \in { lines[l].stations[k] : k \in 1..Len(lines[l].stations) } : st.name = n

RunEnded == pc = "done" /\ exitCode = 0

\* C1: on n >= 2 tokens the route loop calls calculateSegment n-1 times,
\* left to right, the k-th call with (name of token k, name of token k+1,
\* line tag of token k), and the report is those results joined by ", ".
C1_RouteCalls ==
    /\ Len(calls) <= Len(argv)
    /\ calls /= <<>> => Len(calls) < Len(argv)
    /\ pc = "loop" => Len(calls) = i - 1
    /\ \A k \in 1..Len(calls) :
          /\ calls[k].start = NameOf(k)
          /\ calls[k].end = NameOf(k + 1)
          /\ calls[k].line = TagOf(k)
    /\ RunEnded =>
          /\ Len(argv) >= 2
          /\ Len(calls) = Len(argv) - 1
          /\ out = <<Join([k \in 1..Len(calls) |-> calls[k].ret])>>

\* a run of three tokens whose first two tags differ and whose last token
\* carries a tag of its own
C1_Witness ==
    /\ RunEnded
    /\ Len(argv) = 3
    /\ TagOf(1) /= TagOf(2)
    /\ TagOf(3) /= <<>>
    /\ TagOf(3) /= TagOf(2)
    /\ Len(calls) = 2

\* C2: a failing segment never aborts the route; its error string stands at
\* its position of the report, and every segment yields what it yields when
\* computed on its own.
C2_ErrorsDoNotAbort ==
    /\ pc /= "terminated"
    /\ \A k \in 1..Len(calls) :
          /\ calls[k].ret = Fresh(k).ret
          /\ calls[k].kind = Fresh(k).kind
    /\ RunEnded => out = <<Join([k \in 1..(Len(argv) - 1) |-> Fresh(k).ret])>>

\* a finished run whose first segment failed and whose second succeeded
C2_Witness ==
    /\ RunEnded
    /\ Len(calls) = 2
    /\ calls[1].kind = "LineNotFound"
    /\ calls[2].kind = "ok"

\* C3: a line identifier that is no key of the network gives the
\* line-not-found error naming it, whatever the two names are.
C3_LineNotFound ==
    \A k \in 1..Len(calls) :
        calls[k].line \notin DOMAIN lines =>
            /\ calls[k].kind = "LineNotFound"
            /\ calls[k].ret = <<"Error: no such line", "(">> \o calls[k].line \o <<")">>

\* the empty line identifier with a start name that is on no line
C3_Witness ==
    /\ pc = "loaded"
    /\ Len(calls) = 1
    /\ calls[1].line = <<>>
    /\ calls[1].start = <<"Sinchon">>
    /\ calls[1].kind = "LineNotFound"

\* C4 as stated: the station-not-found error names exactly the names that
\* are missing from the line, and not a name that was found.
C4_NamesExactlyMissing ==
    \A k \in 1..Len(calls) :
        calls[k].kind = "StationNotFound" =>
            \A n \in {calls[k].start, calls[k].end} :
                Mentions(calls[k].ret, n) <=> ~OnLine(calls[k].line, n)

\* C4 as amended: on an existing line the error is returned exactly when
\* one of the two names is no station of the line, and it names both the
\* start and the end name, joined by " or ", whichever is missing.
C4_NamesBoth ==
    \A k \in 1..Len(calls) :
        LET c == calls[k]
        IN  /\ c.kind = "StationNotFound" <=>
                 /\ c.line \in DOMAIN lines
                 /\ ~OnLine(c.line, c.start) \/ ~OnLine(c.line, c.end)
            /\ c.kind = "StationNotFound" =>
                 c.ret = <<"Error: station not found ", "(">> \o c.start \o <<" or ">>
                         \o c.end \o <<")">>

\* the start name is a station of the line and the end name is not
C4_Witness ==
    /\ Len(calls) = 1
    /\ calls[1].kind = "StationNotFound"
    /\ OnLine(calls[1].line, calls[1].start)
    /\ ~OnLine(calls[1].line, calls[1].end)

\* C5: for two stations A, B of a line, (A, B) and (B, A) give the same
\* track distance and the same minutes, the distance being the absolute
\* difference of the cumulative distances.
C5_Symmetric ==
    \A k \in 1..Len(calls) :
        LET c == calls[k]
        IN  (OnLine(c.line, c.start) /\ OnLine(c.line, c.end)) =>
               LET rev == CalculateSegment(lines, c.end, c.start, c.line)
                   dA == StationOf(c.line, c.start).distFromStart
                   dB == StationOf(c.line, c.end).distFromStart
               IN  /\ c.kind = "ok" /\ rev.kind = "ok"
                   /\ c.distance = rev.distance
                   /\ c.minutes = rev.minutes
                   /\ c.distance = (IF dA >= dB THEN dA - dB ELSE dB - dA)

\* a call from a station to an earlier station of the line
C5_Witness ==
    /\ Len(calls) = 1
    /\ calls[1].kind = "ok"
    /\ calls[1].start = <<"Noryangjin">>
    /\ calls[1].end = <<"GimpoAirport">>
    /\ calls[1].distance = 184

\* C6: from a station to itself the call succeeds with distance 0 and 0
\* minutes, and the string has no straight-line clause.
C6_SameStation ==
    \A k \in 1..Len(calls) :
        LET c == calls[k]
        IN  (c.start = c.end /\ OnLine(c.line, c.start)) =>
               /\ c.kind = "ok"
               /\ c.distance = 0
               /\ c.minutes = 0
               /\ c.ret = <<"0", ".", "0", "km", "(", "0", "bun, ">> \o c.start \o <<"-">>
                          \o c.start \o <<")">>

\* a station with coordinates, to itself
C6_Witness ==
    /\ Len(calls) = 1
    /\ calls[1].start = calls[1].end
    /\ OnLine(calls[1].line, calls[1].start)
    /\ StationOf(calls[1].line, calls[1].start).lat /= 0
    /\ calls[1].kind = "ok"

\* the first position (from 1) of ch in t, 0 when absent
FirstIndex(t, ch) ==
    IF \E k \in 1..Len(t) : t[k] = ch
    THEN CHOOSE k \in 1..Len(t) : t[k] = ch /\ \A j \in 1..(k - 1) : t[j] /= ch
    ELSE 0

\* C7: with both delimiters the name is what precedes the first '(' and the
\* line identifier what lies between that '(' and the first ')'; otherwise
\* the name is the whole token and the line identifier is empty.
C7_ParseSplits ==
    parsed.returned =>
        LET o == FirstIndex(token, "(")
            c == FirstIndex(token, ")")
        IN  IF o /= 0 /\ c /= 0
            THEN /\ parsed.name = SubSeq(token, 1, o - 1)
                 /\ parsed.line = SubSeq(token, o + 1, c - 1)
            ELSE /\ parsed.name = token
                 /\ parsed.line = <<>>

\* C8: when an endpoint has no coordinate the segment succeeds with its
\* track distance and time, straight-line distance 0 and no straight-line
\* clause.
C8_NoCoordinate ==
    \A k \in 1..Len(calls) :
        LET c == calls[k]
        IN  (OnLine(c.line, c.start) /\ OnLine(c.line, c.end)) =>
               LET a == StationOf(c.line, c.start)
                   b == StationOf(c.line, c.end)
               IN  (a.lat = 0 \/ b.lat = 0) =>
                      /\ c.kind = "ok"
                      /\ c.straightDist = 0
                      /\ ~Mentions(c.ret, <<", jikseon ">>)
                      /\ c.ret = Fixed1(c.distance) \o <<"km", "(">> \o IntStr(c.minutes)
                                 \o <<"bun, ">> \o c.start \o <<"-">> \o c.end \o <<")">>
                      /\ c.distance = Abs(a.distFromStart - b.distFromStart)

\* from a station without coordinates to one with coordinates
C8_Witness ==
    /\ Len(calls) = 1
    /\ calls[1].line = <<"9">>
    /\ calls[1].start = <<"Gaehwa">>
    /\ calls[1].end = <<"GimpoAirport">>
    /\ calls[1].kind = "ok"
    /\ calls[1].distance = 36

\* C9: parseToken returns for every token, and a token with both
\* delimiters is taken as tagged (its name is what precedes the first '(')
\* in whichever order they stand.
C9_ParseTotal ==
    pc = "parsed" =>
        /\ parsed.returned
        /\ ~parsed.threw
        /\ (FirstIndex(token, "(") /= 0 /\ FirstIndex(token, ")") /= 0) =>
              parsed.name = SubSeq(token, 1, FirstIndex(token, "(") - 1)

\* a token whose first ')' precedes its first '(', which ends the token
C9_Witness ==
    /\ pc = "parsed"
    /\ parsed.returned
    /\ FirstIndex(token, ")") /= 0
    /\ FirstIndex(token, ")") < FirstIndex(token, "(")
    /\ FirstIndex(token, "(") = Len(token)

\* C10: once loadData has built the network no calculateSegment call changes
\* it, and a query for a line identifier already reported as not found is
\* reported as not found again.
C10_NetworkUnchanged ==
    [][pc = "loaded" =>
          /\ lines' = lines
          /\ DOMAIN lines' = {ArexId, NineId}
          /\ \A k \in 1..Len(calls') :
                calls'[k].repeated => calls'[k].kind = "LineNotFound"]_vars

\* a second query for the same unknown line identifier
C10_Witness ==
    /\ pc = "loaded"
    /\ Len(calls) = 1
    /\ calls[1].repeated
    /\ calls[1].line = <<"99">>
    /\ calls[1].kind = "LineNotFound"

=============================================================================
